---- MODULE Spec2Model ----
(***************************************************************************)
(* Model of cloudflare-tls-stats (src/q3.py, with src/q1.py and src/q2.py  *)
(* where they differ): the time chunker, the statistics aggregator, zone   *)
(* discovery, the query executor, the export and the per-zone pipeline of  *)
(* main().  Spec runs main(); SpecChunk, SpecAgg, SpecZones, SpecExec and  *)
(* SpecExport run one function each.                                       *)
(*                                                                         *)
(* Data representation                                                     *)
(*   - An ISO-8601 timestamp string is a record [wall, off, z]: the wall   *)
(*     clock reading in seconds, the UTC offset in seconds, and whether    *)
(*     the offset is written as the suffix "Z".                            *)
(*   - A timezone-aware datetime is a record [inst, off]: the instant in   *)
(*     seconds since the epoch (UTC) and the UTC offset it carries.        *)
(*   - A Python dict is the sequence of its [k, v] items in insertion      *)
(*     order, which is the order .items() iterates in.                     *)
(*   - A zone name, a zone tag and a line of the export file are           *)
(*     sequences of characters; a protocol label is a single token.        *)
(***************************************************************************)
EXTENDS Integers, Sequences, FiniteSets, TLC

(***************************************************************************)
(* Bounds of the model.                                                    *)
(***************************************************************************)
MaxWall == 5
MaxOff == 1
MaxSpan == 3
MaxChunks == 7
MaxCount == 1
MaxList == 3
MaxZones == 2
MaxPages == 2

(***************************************************************************)
(* Program constants.                                                      *)
(***************************************************************************)
DefaultMaxChunkSeconds == 259200
DaySeconds == 86400

VARIABLES
    ck_pc,            \* chunk_time_range: "loop" | "returned"
    start_datetime,   \* chunk_time_range: argument (ISO string)
    end_datetime,     \* chunk_time_range: argument (ISO string)
    max_chunk_seconds,\* chunk_time_range: argument
    current_start,    \* chunk_time_range: local (datetime)
    chunks,           \* chunk_time_range: local, the list returned
    ag_pc,            \* aggregation: "call" | "done"
    stats_list,       \* aggregate_tls_stats: argument (list of dicts)
    aggregated,       \* aggregate_tls_stats: the dict returned
    global_fold,      \* main: global_tls_stats after folding stats_list
    pc,               \* main: where the run is
    args,             \* main: the parsed command line
    page,             \* get_all_zones_rest_api: local
    zones,            \* get_all_zones_rest_api / main: local
    discovered,       \* what get_all_zones returned to main
    i,                \* main: index of the zone being processed
    time_chunks,      \* fetch_zone_tls_stats_chunked: local
    j,                \* fetch_zone_tls_stats_chunked: index of the chunk (i)
    chunk_stats,      \* fetch_zone_tls_stats_chunked: local
    all_zone_stats,   \* main: local
    global_tls_stats, \* main: local
    zone_reports,     \* what fetch_zone_tls_stats_chunked returned, per zone
    zone_sum,         \* sum of the contributions of the zone's responses
    events,           \* queries, pauses and outputs of the run, in order
    exported,         \* the text of the export file
    exit_code,        \* exit status of the process, -1 while it runs
    zd_pc,            \* get_all_zones: "rest" | "fallback" | "returned" | "raised"
    zd_page,          \* get_all_zones_rest_api: local page
    zd_zones,         \* get_all_zones_rest_api: local zones
    zd_log,           \* the page requests made so far and their responses
    zd_rest,          \* get_all_zones: what get_all_zones_rest_api returned
    zd_gql,           \* get_all_zones: the GraphQL listing has been requested
    zd_result,        \* get_all_zones: the list returned
    ex_pc,            \* one query: "call" | "extract" | "done" | "reported" |
                      \* "raised", and in q1 "ended" when main is over
    ex_script,        \* one query: the script whose executor is called
    ex_response,      \* one query: what the endpoint answers
    ex_result,        \* one query: what execute_graphql_query returned
    ex_prints,        \* one query: the messages printed
    ex_stats,         \* one query: what process_tls_data_for_zone returned
    ex_exit,          \* one query: the exit status of the process, -1 while
                      \* it runs
    xp_pc,            \* export_zone_tls_stats: "call" | "done"
    xp_zone,          \* export_zone_tls_stats: the zone (name and tag)
    xp_stats,         \* export_zone_tls_stats: argument tls_stats
    xp_io,            \* export_zone_tls_stats: no IOError is raised
    xp_file           \* export_zone_tls_stats: the text of the file

ck_vars == <<ck_pc, start_datetime, end_datetime, max_chunk_seconds,
             current_start, chunks>>
ag_vars == <<ag_pc, stats_list, aggregated, global_fold>>
run_vars == <<pc, args, page, zones, discovered, i, time_chunks, j, chunk_stats,
              all_zone_stats, global_tls_stats, zone_reports, zone_sum, events,
              exported, exit_code>>
zd_vars == <<zd_pc, zd_page, zd_zones, zd_log, zd_rest, zd_gql, zd_result>>
ex_vars == <<ex_pc, ex_script, ex_response, ex_result, ex_prints, ex_stats,
             ex_exit>>
xp_vars == <<xp_pc, xp_zone, xp_stats, xp_io, xp_file>>
vars == <<ck_vars, ag_vars, run_vars, zd_vars, ex_vars, xp_vars>>

----------------------------------------------------------------------------
(***************************************************************************)
(* datetime: parsing, formatting, arithmetic, comparison.                  *)
(***************************************************************************)

\* s.replace('Z', '+00:00'): the suffix Z is rewritten as a zero offset.
replace_Z(s) == [wall |-> s.wall, off |-> s.off, z |-> FALSE]

\* datetime.fromisoformat: wall clock and offset give the instant.
fromisoformat(s) == [inst |-> s.wall - s.off, off |-> s.off]

\* datetime.isoformat: the wall clock of the instant at the datetime's own
\* offset; an aware datetime is never written with the suffix Z.
isoformat(d) == [wall |-> d.inst + d.off, off |-> d.off, z |-> FALSE]

\* datetime + timedelta(seconds = n): the offset is kept.
plus_seconds(d, n) == [inst |-> d.inst + n, off |-> d.off]

\* Aware datetimes compare by instant.
dt_lt(a, b) == a.inst < b.inst

\* min(a, b) of Python: the first argument unless the second is smaller.
dt_min(a, b) == IF dt_lt(b, a) THEN b ELSE a

\* src/q3.py:47-48
parse_arg(s) == fromisoformat(replace_Z(s))

----------------------------------------------------------------------------
(***************************************************************************)
(* chunk_time_range (src/q3.py:34-63).                                     *)
(***************************************************************************)

\* src/q3.py:55, with a chunk end that ignores the final end time (faulty variant).
chunk_end_unclamped(cur, end_dt, span) == plus_seconds(cur, span)

\* src/q3.py:55
chunk_end_of(cur, end_dt, span) == dt_min(plus_seconds(cur, span), end_dt)

\* src/q3.py:58
chunk_tuple(cur, chunk_end) == <<isoformat(cur), isoformat(chunk_end)>>

\* src/q3.py:61, with the next chunk starting one second after the previous
\* one ends (faulty variant).
next_start_skip(chunk_end) == plus_seconds(chunk_end, 1)

\* src/q3.py:61
next_start(chunk_end) == chunk_end

\* src/q3.py:53
loop_cond(cur, end_dt) == dt_lt(cur, end_dt)

\* The whole function, as the loop computes it (terminates for span >= 1).
RECURSIVE chunk_loop(_, _, _, _)
chunk_loop(cur, end_dt, span, acc) ==
    IF loop_cond(cur, end_dt)
    THEN LET chunk_end == chunk_end_of(cur, end_dt, span)
         IN  chunk_loop(next_start(chunk_end), end_dt, span,
                        Append(acc, chunk_tuple(cur, chunk_end)))
    ELSE acc

\* src/q3.py:34-63
chunk_time_range(s, e, span) ==
    chunk_loop(parse_arg(s), parse_arg(e), span, <<>>)

----------------------------------------------------------------------------
(***************************************************************************)
(* Python dicts as insertion-ordered item sequences.                       *)
(***************************************************************************)

\* k in d
dict_has(d, k) == \E n \in 1..Len(d) : d[n].k = k

\* d[k], for k in d
dict_get(d, k) == d[CHOOSE n \in 1..Len(d) : d[n].k = k].v

\* d.keys() as a set
dict_keys(d) == { d[n].k : n \in 1..Len(d) }

\* The mapping a dict denotes: dict equality of Python ignores the order.
AsMap(d) == [k \in dict_keys(d) |-> dict_get(d, k)]

\* "if protocol in d: d[protocol] = requests else: d[protocol] = requests":
\* the count is overwritten instead of added (faulty variant).
dict_accumulate_overwrite(d, k, v) ==
    IF dict_has(d, k)
    THEN [n \in 1..Len(d) |-> IF d[n].k = k THEN [k |-> k, v |-> v] ELSE d[n]]
    ELSE Append(d, [k |-> k, v |-> v])

\* "if protocol in d: d[protocol] += requests else: d[protocol] = requests"
\* (src/q3.py:366-369, 556-559, 338-341): an existing key keeps its place.
dict_accumulate(d, k, v) ==
    IF dict_has(d, k)
    THEN [n \in 1..Len(d) |->
            IF d[n].k = k THEN [k |-> k, v |-> d[n].v + v] ELSE d[n]]
    ELSE Append(d, [k |-> k, v |-> v])

\* d[k] = v
dict_set(d, k, v) ==
    IF dict_has(d, k)
    THEN [n \in 1..Len(d) |-> IF d[n].k = k THEN [k |-> k, v |-> v] ELSE d[n]]
    ELSE Append(d, [k |-> k, v |-> v])

\* "for protocol, requests in stats.items(): <accumulate into acc>", from
\* item n on (src/q3.py:365-369, 555-559).
RECURSIVE add_items(_, _, _)
add_items(acc, stats, n) ==
    IF n > Len(stats) THEN acc
    ELSE add_items(dict_accumulate(acc, stats[n].k, stats[n].v), stats, n + 1)

----------------------------------------------------------------------------
(***************************************************************************)
(* aggregate_tls_stats (src/q3.py:352-371) and the global fold of main     *)
(* (src/q3.py:551-559).                                                    *)
(***************************************************************************)

RECURSIVE aggregate_from(_, _, _)
aggregate_from(acc, list, n) ==
    IF n > Len(list) THEN acc
    ELSE aggregate_from(add_items(acc, list[n], 1), list, n + 1)

\* src/q3.py:352-371
aggregate_tls_stats(list) == aggregate_from(<<>>, list, 1)

\* src/q3.py:551-559 with the global count replaced by the zone's (faulty variant).
RECURSIVE set_items(_, _, _)
set_items(acc, stats, n) ==
    IF n > Len(stats) THEN acc
    ELSE set_items(dict_set(acc, stats[n].k, stats[n].v), stats, n + 1)

main_fold_overwrite(global, zone_tls_stats) ==
    IF zone_tls_stats # <<>> THEN set_items(global, zone_tls_stats, 1)
    ELSE global

\* src/q3.py:551-559 with the global stats replaced by the zone's stats
\* (faulty variant).
main_fold_replace(global, zone_tls_stats) ==
    IF zone_tls_stats # <<>> THEN zone_tls_stats ELSE global

\* src/q3.py:551-559: a zone's stats are folded into the global stats only
\* when they are non-empty ("if zone_tls_stats:").
main_fold(global, zone_tls_stats) ==
    IF zone_tls_stats # <<>> THEN add_items(global, zone_tls_stats, 1)
    ELSE global

\* global_tls_stats after the zones' stats of a list have been folded in turn.
RECURSIVE fold_zones(_, _, _)
fold_zones(global, list, n) ==
    IF n > Len(list) THEN global
    ELSE fold_zones(main_fold(global, list[n]), list, n + 1)

----------------------------------------------------------------------------
(***************************************************************************)
(* Strings (sequences of one-character strings).                           *)
(***************************************************************************)

\* str.lower() of one character of the model's alphabet
lower_char(c) == IF c = "A" THEN "a" ELSE IF c = "B" THEN "b" ELSE c

\* str.lower()
lower(s) == [n \in 1..Len(s) |-> lower_char(s[n])]

\* "f in s" for strings: f occurs in s as a contiguous substring.
str_in(f, s) ==
    \E k \in 0..(Len(s) - Len(f)) : \A n \in 1..Len(f) : s[k + n] = f[n]

\* "f in s", comparing the characters as they are written (faulty variant: the
\* zone name is not lowered).
filter_matches_case_sensitive(zone_filter, z) == str_in(lower(zone_filter), z.name)

\* src/q3.py:524: args.zone_filter.lower() in z["name"].lower()
filter_matches(zone_filter, z) == str_in(lower(zone_filter), lower(z.name))

\* src/q3.py:524 with the zones kept listed last first (faulty variant).
filter_zones_reversed(zone_filter, zs, n) ==
    LET Keep(z) == filter_matches(zone_filter, z)
        kept == SelectSeq(SubSeq(zs, n, Len(zs)), Keep)
    IN  [m \in 1..Len(kept) |-> kept[Len(kept) + 1 - m]]

\* src/q3.py:524: [z for z in zones if ...], from zone n on.
RECURSIVE filter_zones(_, _, _)
filter_zones(zone_filter, zs, n) ==
    IF n > Len(zs) THEN <<>>
    ELSE LET rest == filter_zones(zone_filter, zs, n + 1)
         IN  IF filter_matches(zone_filter, zs[n]) THEN <<zs[n]>> \o rest
             ELSE rest

----------------------------------------------------------------------------
(***************************************************************************)
(* HTTP responses.  A response is a record                                 *)
(*   kind   "transport" (the request raises), "http" (raise_for_status     *)
(*          raises), "badjson" (the body does not decode), "nonobject"     *)
(*          (the body is the JSON value null), "object" (a JSON object);   *)
(*   errors "absent" | "null" | "present": the object's errors member;     *)
(*   shape  how far the data/viewer/zones nesting goes: "no_data",         *)
(*          "null_data", "no_viewer", "null_viewer", "no_zones",           *)
(*          "null_zones", "zones";                                         *)
(*   zones  for shape "zones", the list of zones: each zone the list of    *)
(*          its groups, each group the list of its clientSSLMap entries    *)
(*          [has_p, p, has_r, r] (a zone listing carries zone tags).       *)
(***************************************************************************)

Resp(kind, errors, shape, zs) ==
    [kind |-> kind, errors |-> errors, shape |-> shape, zones |-> zs]

\* What a call returns: a value, None, or an exception that is not caught.
Returned(v) == [exc |-> FALSE, none |-> FALSE, value |-> v]
ReturnedNone == [exc |-> FALSE, none |-> TRUE, value |-> <<>>]
Raised == [exc |-> TRUE, none |-> FALSE, value |-> <<>>]

\* execute_graphql_query that hands the body on whatever its errors member
\* says (faulty variant).
execute_graphql_query_ignoring_errors(r) ==
    IF r.kind \in {"transport", "http", "badjson"} THEN ReturnedNone
    ELSE IF r.kind = "nonobject" THEN Raised
    ELSE Returned(r)

\* src/q3.py:133-188.  RequestException and JSONDecodeError are caught; the
\* TypeError of '"errors" in data' for a body that is null is not.
execute_graphql_query(r) ==
    IF r.kind \in {"transport", "http", "badjson"} THEN ReturnedNone
    ELSE IF r.kind = "nonobject" THEN Raised
    ELSE IF r.errors = "present" THEN ReturnedNone
    ELSE Returned(r)

\* src/q1.py:82-140: the executor of q1, which returns what the executor of
\* q3 returns.
execute_graphql_query_q1(r) ==
    IF r.kind \in {"transport", "http", "badjson"} THEN ReturnedNone
    ELSE IF r.kind = "nonobject" THEN Raised
    ELSE IF r.errors = "present" THEN ReturnedNone
    ELSE Returned(r)

\* The messages the executor of q3 and q2 prints about the response
\* (src/q3.py:177-188, src/q2.py:146-157).  Response.json() raises
\* requests.exceptions.JSONDecodeError on a body that does not decode, a
\* RequestException, so that the first except clause catches it.
executor_prints(r) ==
    IF r.kind \in {"transport", "http"} THEN <<"request_error">>
    ELSE IF r.kind = "badjson" THEN <<"request_error">>
    ELSE IF r.kind = "nonobject" THEN <<>>
    ELSE IF r.errors = "present" THEN <<"graphql_errors">>
    ELSE <<>>

\* The messages the executor of q1 prints about the response
\* (src/q1.py:125-140): as above, and a note when errors is null.
executor_prints_q1(r) ==
    IF r.kind \in {"transport", "http"} THEN <<"request_error">>
    ELSE IF r.kind = "badjson" THEN <<"request_error">>
    ELSE IF r.kind = "nonobject" THEN <<>>
    ELSE IF r.errors = "present" THEN <<"graphql_errors">>
    ELSE IF r.errors = "null" THEN <<"errors_null_note">>
    ELSE <<>>

\* Truth value of what execute_graphql_query returned ("if response_data:",
\* src/q3.py:415, 287): None and the empty object {} are false.
truthy(res) ==
    /\ ~res.none
    /\ ~(res.value.errors = "absent" /\ res.value.shape = "no_data")

\* src/q3.py:335-336: .get with its default
entry_protocol(e) == IF e.has_p THEN e.p ELSE "Unknown"
entry_requests(e) == IF e.has_r THEN e.r ELSE 0

\* src/q3.py:334-343: the entries of one clientSSLMap, from entry n on.
RECURSIVE add_entries(_, _, _)
add_entries(tls_stats, client_ssl_map, n) ==
    IF n > Len(client_ssl_map) THEN tls_stats
    ELSE add_entries(dict_accumulate(tls_stats,
                                     entry_protocol(client_ssl_map[n]),
                                     entry_requests(client_ssl_map[n])),
                     client_ssl_map, n + 1)

\* src/q3.py:330-343: the groups of one zone, from group n on.
RECURSIVE add_groups(_, _, _)
add_groups(tls_stats, http_requests, n) ==
    IF n > Len(http_requests) THEN tls_stats
    ELSE add_groups(add_entries(tls_stats, http_requests[n], 1),
                    http_requests, n + 1)

\* src/q3.py:327-343: the zones of the response, from zone n on.
RECURSIVE add_zones(_, _, _)
add_zones(tls_stats, zs, n) ==
    IF n > Len(zs) THEN tls_stats
    ELSE add_zones(add_groups(tls_stats, zs[n], 1), zs, n + 1)

\* src/q3.py:307-349.  A missing key raises KeyError, which is caught and
\* gives {}; subscripting null raises TypeError, which is not caught.
process_tls_data_for_zone(data) ==
    IF data.shape \in {"no_data", "no_viewer", "no_zones"} THEN Returned(<<>>)
    ELSE IF data.shape \in {"null_data", "null_viewer"} THEN Raised
    ELSE IF data.shape = "null_zones" \/ data.zones = <<>> THEN Returned(<<>>)
    ELSE Returned(add_zones(<<>>, data.zones, 1))

\* The message process_tls_data_for_zone prints (src/q3.py:347-348): only the
\* handler of KeyError prints; "if not zones: return {}" (src/q3.py:324-325)
\* does not.
process_prints(data) ==
    IF data.shape \in {"no_data", "no_viewer", "no_zones"}
    THEN <<"unexpected_structure">> ELSE <<>>

\* src/q1.py:159-193: what process_tls_data prints for the zones of the
\* response, from zone n on: a line that says so for a zone that has no
\* groups, and the table of the zone's protocols otherwise.
RECURSIVE zone_tables(_, _)
zone_tables(zs, n) ==
    IF n > Len(zs) THEN <<>>
    ELSE <<IF zs[n] = <<>> THEN "no_http_data" ELSE "display">>
         \o zone_tables(zs, n + 1)

\* src/q1.py:143-198: process_tls_data of q1, by the messages it prints; it
\* returns nothing.  A missing key raises KeyError and subscripting null
\* raises TypeError; both are caught, each with a message of its own.
process_tls_data(data) ==
    IF data.shape \in {"no_data", "no_viewer", "no_zones"}
    THEN <<"unexpected_structure">>
    ELSE IF data.shape \in {"null_data", "null_viewer"}
    THEN <<"processing_error">>
    ELSE IF data.shape = "null_zones" \/ data.zones = <<>> THEN <<"no_zones">>
    ELSE zone_tables(data.zones, 1)

\* src/q3.py:415-419 with the stats of the chunk before appended again when
\* the query failed (faulty variant).
chunk_stats_append_stale(cs, res, chunk_tls_stats) ==
    IF truthy(res) THEN Append(cs, chunk_tls_stats)
    ELSE IF cs # <<>> THEN Append(cs, cs[Len(cs)]) ELSE cs

\* src/q3.py:415-419: chunk_stats after the response of one chunk.
chunk_stats_append(cs, res, chunk_tls_stats) ==
    IF truthy(res) THEN Append(cs, chunk_tls_stats) ELSE cs

\* sorted(items, key = count, reverse = True): a stable sort, by insertion.
RECURSIVE insert_sorted(_, _)
insert_sorted(sorted, it) ==
    IF sorted = <<>> THEN <<it>>
    ELSE IF sorted[Len(sorted)].v >= it.v THEN Append(sorted, it)
    ELSE Append(insert_sorted(SubSeq(sorted, 1, Len(sorted) - 1), it),
                sorted[Len(sorted)])

RECURSIVE sorted_by_count_desc(_, _)
sorted_by_count_desc(d, n) ==
    IF n = 0 THEN <<>>
    ELSE insert_sorted(sorted_by_count_desc(d, n - 1), d[n])

\* The decimal digit d as a character.
digit_char(d) == <<"0", "1", "2", "3", "4", "5", "6", "7", "8", "9">>[d + 1]

\* str() of a non-negative int, as the f-string of src/q3.py:471 formats it.
RECURSIVE str_int(_)
str_int(n) ==
    IF n < 10 THEN <<digit_char(n)>>
    ELSE Append(str_int(n \div 10), digit_char(n % 10))

\* The characters of a protocol label, as the f-string of src/q3.py:471
\* formats it.
str_label(protocol) ==
    CASE protocol = "TLSv1.2" -> <<"T", "L", "S", "v", "1", ".", "2">>
      [] protocol = "TLSv1.3" -> <<"T", "L", "S", "v", "1", ".", "3">>
      [] protocol = "Unknown" -> <<"U", "n", "k", "n", "o", "w", "n">>

\* src/q3.py:471: one line of the export file, a sequence of characters that
\* ends with the newline.
export_line(zone_name, zone_tag, protocol, requests) ==
    zone_name \o <<";">> \o zone_tag \o <<";">> \o str_label(protocol) \o <<";">>
        \o str_int(requests) \o <<"\n">>

\* src/q3.py:470-471: the lines of the items from the n-th on, one after the
\* other.
RECURSIVE export_write(_, _, _, _)
export_write(zone_name, zone_tag, sorted_stats, n) ==
    IF n > Len(sorted_stats) THEN <<>>
    ELSE export_line(zone_name, zone_tag, sorted_stats[n].k, sorted_stats[n].v)
         \o export_write(zone_name, zone_tag, sorted_stats, n + 1)

\* src/q3.py:450-473: the text a call has to append to the export file.
export_zone_tls_stats(zone_name, zone_tag, tls_stats) ==
    IF tls_stats = <<>> THEN <<>>
    ELSE export_write(zone_name, zone_tag,
                      sorted_by_count_desc(tls_stats, Len(tls_stats)), 1)

\* src/q3.py:468-473: what a call leaves in the file of the text it has to
\* append: all of it, or the characters that reached the file before open()
\* or write() raised IOError, which is caught.
export_outcomes(text) == { SubSeq(text, 1, n) : n \in 0..Len(text) }

----------------------------------------------------------------------------
(***************************************************************************)
(* Inputs.                                                                 *)
(***************************************************************************)

\* ISO strings of the chunker's inputs.
IsoStrings ==
    { [wall |-> w, off |-> o, z |-> zz] :
        w \in 0..MaxWall, o \in 0..MaxOff, zz \in BOOLEAN }

\* A string ending in Z carries no numeric offset.
WellFormedIso == { s \in IsoStrings : s.z => s.off = 0 }

\* 2024-01-01T00:00:00Z and 2024-01-04T00:00:00Z, with chunks of one day.
ScenarioA ==
    [s |-> [wall |-> 1704067200, off |-> 0, z |-> TRUE],
     e |-> [wall |-> 1704326400, off |-> 0, z |-> TRUE],
     span |-> DaySeconds]

ChunkInputs ==
    { [s |-> a, e |-> b, span |-> n] :
        a \in WellFormedIso, b \in WellFormedIso, n \in (-1)..MaxSpan }
    \cup {ScenarioA}

Labels == {"TLSv1.2", "TLSv1.3"}

Item == [k : Labels, v : 0..MaxCount]

\* Dicts: item sequences without a repeated key.
Dicts ==
    {<<>>}
    \cup { <<a>> : a \in Item }
    \cup { <<p[1], p[2]>> : p \in {q \in Item \X Item : q[1].k # q[2].k} }

RECURSIVE SeqsUpTo(_, _)
SeqsUpTo(S, n) ==
    IF n = 0 THEN {<<>>}
    ELSE LET shorter == SeqsUpTo(S, n - 1)
         IN  shorter \cup { Append(q, x) : q \in {r \in shorter : Len(r) = n - 1},
                                          x \in S }

----------------------------------------------------------------------------
(***************************************************************************)
(* Inputs of a run of main().                                              *)
(***************************************************************************)

\* Zone objects of the REST listing.
ZoneSet ==
    { [id |-> <<"a", "1">>, name |-> <<"A", "b">>],
      [id |-> <<"b", "2">>, name |-> <<"b", "a">>] }

\* Zone tags of the GraphQL listing.
TagSet == { z.id : z \in ZoneSet }

\* --zone-filter: absent (or empty), or a substring.
FilterSet == { <<>>, <<"a", "B">>, <<"B">>, <<"d">> }

\* The command line: --zone-filter, --delay, --export-file; the export is
\* asked for with the filter "aB", which keeps the zones named Ab, and
\* without a delay.  (--summary is read once, at src/q3.py:573, and its value
\* is drawn there.)
ArgSet ==
    [zone_filter : FilterSet, delay : {0, 1}, export_file : {FALSE}]
    \cup [zone_filter : {<<"a", "B">>}, delay : {0}, export_file : {TRUE}]

\* --start-date 2024-01-01T00:00:00Z and an --end-date one and a half days
\* earlier, one and a half days later (one chunk) and four and a half days
\* later (two chunks).
RunStart == ScenarioA.s
RunEnds ==
    { [wall |-> RunStart.wall + h * (DefaultMaxChunkSeconds \div 2),
       off |-> 0, z |-> TRUE] : h \in {-1, 1, 3} }

\* The --end-date of the runs that export: one and a half days later (one
\* chunk).
ExportRunEnds ==
    { e \in RunEnds : /\ RunStart.wall < e.wall
                      /\ e.wall <= RunStart.wall + DefaultMaxChunkSeconds }

\* One clientSSLMap entry.
Entry(p, r) == [has_p |-> TRUE, p |-> p, has_r |-> TRUE, r |-> r]

\* The zones member of two statistics responses: one zone whose two groups
\* count TLSv1.2 100 times and TLSv1.3 50 times, and one zone whose one group
\* counts TLSv1.3 25 times.
PayloadA == << << <<Entry("TLSv1.2", 100)>>, <<Entry("TLSv1.3", 50)>> >> >>
PayloadB == << << <<Entry("TLSv1.3", 25)>> >> >>

\* The zones member of a response with two zones, the first of them without
\* groups.
PayloadC == << <<>>, << <<Entry("TLSv1.3", 25)>> >> >>

\* What the statistics endpoint may answer to one query.
StatResponses ==
    { Resp(k, "absent", "no_data", <<>>) :
        k \in {"transport", "http", "badjson", "nonobject", "object"} }
    \cup { Resp("object", "present", s, <<>>) : s \in {"no_data", "null_data"} }
    \cup { Resp("object", "null", s, <<>>) :
             s \in {"no_data", "null_data", "no_viewer", "null_viewer",
                    "no_zones", "null_zones", "zones"} }
    \cup { Resp("object", e, "zones", p) :
             e \in {"absent", "null"}, p \in {PayloadA, PayloadB} }

\* What the GraphQL endpoint may answer to the zone listing.
ListingResponses ==
    { Resp(k, "absent", "no_data", <<>>) :
        k \in {"transport", "http", "badjson", "nonobject", "object"} }
    \cup { Resp("object", "present", "null_data", <<>>) }
    \cup { Resp("object", "null", s, <<>>) :
             s \in {"null_data", "no_viewer", "null_zones"} }
    \cup { Resp("object", "null", "zones", t) : t \in SeqsUpTo(TagSet, MaxZones) }

\* What the REST endpoint may answer to one page request: a request that
\* fails, a body that is the JSON value null, or an object with its success
\* flag, its result list and its result_info.total_pages (has_total: the
\* member is there).
RestResponses ==
    { [kind |-> k, success |-> FALSE, result |-> <<>>, has_total |-> FALSE,
       total_pages |-> 1] : k \in {"transport", "http", "badjson", "nonobject"} }
    \cup [kind : {"object"}, success : BOOLEAN,
          result : SeqsUpTo(ZoneSet, MaxZones), has_total : {TRUE},
          total_pages : 1..MaxPages]
    \cup [kind : {"object"}, success : BOOLEAN,
          result : SeqsUpTo(ZoneSet, MaxZones), has_total : {FALSE},
          total_pages : {1}]

----------------------------------------------------------------------------
(***************************************************************************)
(* Bookkeeping of the model: what has been observed of the run.            *)
(***************************************************************************)

Ev(e, zone, win) == [e |-> e, zone |-> zone, win |-> win]

EmptyMap == [k \in {} |-> 0]

MapAdd(f, g) ==
    [k \in DOMAIN f \cup DOMAIN g |->
        (IF k \in DOMAIN f THEN f[k] ELSE 0) + (IF k \in DOMAIN g THEN g[k] ELSE 0)]

RECURSIVE MapSum(_, _)
MapSum(list, n) == IF n = 0 THEN EmptyMap ELSE MapAdd(MapSum(list, n - 1), AsMap(list[n]))

\* The statistics query of this response failed: no usable body came back.
QueryFailed(r) ==
    \/ r.kind # "object"
    \/ r.errors = "present"
    \/ (r.errors = "absent" /\ r.shape = "no_data")

\* All entries of a response, zone after zone and group after group.
RECURSIVE Flatten(_)
Flatten(list) == IF list = <<>> THEN <<>> ELSE Head(list) \o Flatten(Tail(list))

RECURSIVE SumOf(_, _)
SumOf(entries, label) ==
    IF entries = <<>> THEN 0
    ELSE (IF entry_protocol(Head(entries)) = label
          THEN entry_requests(Head(entries)) ELSE 0) + SumOf(Tail(entries), label)

\* The mapping a response contributes to its zone: the counts of its entries
\* added up per label when the query succeeded and the nesting is there,
\* nothing otherwise.
Contribution(r) ==
    IF QueryFailed(r) \/ r.shape # "zones" THEN EmptyMap
    ELSE LET entries == Flatten(Flatten(r.zones))
         IN  [k \in { entry_protocol(entries[n]) : n \in 1..Len(entries) } |->
                SumOf(entries, k)]

----------------------------------------------------------------------------
(***************************************************************************)
(* The state of a part of the program that a specification does not run.   *)
(***************************************************************************)

RunIdle ==
    /\ pc = "idle"
    /\ args = <<>>
    /\ page = 0
    /\ zones = <<>>
    /\ discovered = <<>>
    /\ i = 0
    /\ time_chunks = <<>>
    /\ j = 0
    /\ chunk_stats = <<>>
    /\ all_zone_stats = <<>>
    /\ global_tls_stats = <<>>
    /\ zone_reports = <<>>
    /\ zone_sum = EmptyMap
    /\ events = <<>>
    /\ exported = <<>>
    /\ exit_code = -1

----------------------------------------------------------------------------
(***************************************************************************)
(* The chunker, one loop iteration per step.                               *)
(***************************************************************************)

ChunkIdle ==
    /\ ck_pc = "idle"
    /\ start_datetime = <<>>
    /\ end_datetime = <<>>
    /\ max_chunk_seconds = 0
    /\ current_start = <<>>
    /\ chunks = <<>>

AggIdle ==
    /\ ag_pc = "idle"
    /\ stats_list = <<>>
    /\ aggregated = <<>>
    /\ global_fold = <<>>

ZonesIdle ==
    /\ zd_pc = "idle"
    /\ zd_page = 0
    /\ zd_zones = <<>>
    /\ zd_log = <<>>
    /\ zd_rest = <<>>
    /\ zd_gql = FALSE
    /\ zd_result = <<>>

ExecIdle ==
    /\ ex_pc = "idle"
    /\ ex_script = ""
    /\ ex_response = <<>>
    /\ ex_result = <<>>
    /\ ex_prints = <<>>
    /\ ex_stats = <<>>
    /\ ex_exit = -1

ExportIdle ==
    /\ xp_pc = "idle"
    /\ xp_zone = <<>>
    /\ xp_stats = <<>>
    /\ xp_io = TRUE
    /\ xp_file = <<>>

\* Entry of chunk_time_range: lines 47-51.
ChunkInit ==
    /\ \E inp \in ChunkInputs :
        /\ start_datetime = inp.s
        /\ end_datetime = inp.e
        /\ max_chunk_seconds = inp.span
    /\ current_start = parse_arg(start_datetime)
    /\ chunks = <<>>
    /\ ck_pc = "loop"
    /\ AggIdle
    /\ RunIdle
    /\ ZonesIdle
    /\ ExecIdle
    /\ ExportIdle

\* One iteration of the while loop: lines 53-61.  MaxChunks caps the list of
\* a call that never leaves the loop.
ChunkIter ==
    /\ ck_pc = "loop"
    /\ loop_cond(current_start, parse_arg(end_datetime))
    /\ Len(chunks) < MaxChunks
    /\ LET chunk_end == chunk_end_of(current_start, parse_arg(end_datetime),
                                     max_chunk_seconds)
       IN  /\ chunks' = Append(chunks, chunk_tuple(current_start, chunk_end))
           /\ current_start' = next_start(chunk_end)
    /\ UNCHANGED <<ck_pc, start_datetime, end_datetime, max_chunk_seconds>>
    /\ UNCHANGED <<ag_vars, run_vars, zd_vars, ex_vars, xp_vars>>

\* Loop exit and return: lines 53, 63.
ChunkReturn ==
    /\ ck_pc = "loop"
    /\ ~loop_cond(current_start, parse_arg(end_datetime))
    /\ ck_pc' = "returned"
    /\ UNCHANGED <<start_datetime, end_datetime, max_chunk_seconds,
                   current_start, chunks>>
    /\ UNCHANGED <<ag_vars, run_vars, zd_vars, ex_vars, xp_vars>>

ChunkNext == ChunkIter \/ ChunkReturn

SpecChunk == ChunkInit /\ [][ChunkNext]_vars

----------------------------------------------------------------------------
(***************************************************************************)
(* The aggregator, applied to a list of dicts.                             *)
(***************************************************************************)

AggInit ==
    /\ stats_list \in SeqsUpTo(Dicts, MaxList)
    /\ ag_pc = "call"
    /\ aggregated = <<>>
    /\ global_fold = <<>>
    /\ ChunkIdle
    /\ RunIdle
    /\ ZonesIdle
    /\ ExecIdle
    /\ ExportIdle

\* aggregate_tls_stats(stats_list), and main's fold of the same dicts as the
\* stats of successive zones.
AggCall ==
    /\ ag_pc = "call"
    /\ aggregated' = aggregate_tls_stats(stats_list)
    /\ global_fold' = fold_zones(<<>>, stats_list, 1)
    /\ ag_pc' = "done"
    /\ UNCHANGED stats_list
    /\ UNCHANGED <<ck_vars, run_vars, zd_vars, ex_vars, xp_vars>>

AggNext == AggCall

SpecAgg == AggInit /\ [][AggNext]_vars

----------------------------------------------------------------------------
(***************************************************************************)
(* main() of src/q3.py, one network call (or one block between two) a step.*)
(***************************************************************************)

\* main up to the call of get_all_zones (src/q3.py:476-516) and the entry of
\* get_all_zones_rest_api (src/q3.py:208-210).
RunInit ==
    /\ pc = "rest"
    /\ args \in ArgSet
    /\ start_datetime = RunStart
    /\ end_datetime \in IF args.export_file THEN ExportRunEnds ELSE RunEnds
    /\ page = 1
    /\ zones = <<>>
    /\ discovered = <<>>
    /\ i = 0
    /\ time_chunks = <<>>
    /\ j = 0
    /\ chunk_stats = <<>>
    /\ all_zone_stats = <<>>
    /\ global_tls_stats = <<>>
    /\ zone_reports = <<>>
    /\ zone_sum = EmptyMap
    /\ events = <<>>
    /\ exported = <<>>
    /\ exit_code = -1
    /\ ck_pc = "idle"
    /\ max_chunk_seconds = DefaultMaxChunkSeconds
    /\ current_start = <<>>
    /\ chunks = <<>>
    /\ AggIdle
    /\ ZonesIdle
    /\ ExecIdle
    /\ ExportIdle

\* src/q3.py:236-240
rest_zone(z) == [zoneTag |-> z.id, name |-> z.name]

\* src/q3.py:235-240: the zones of one page, appended to the list.
rest_extend(zs, result) ==
    zs \o [n \in 1..Len(result) |-> rest_zone(result[n])]

\* src/q3.py:243: result_info.get("total_pages", 1)
rest_total_pages(r) == IF r.has_total THEN r.total_pages ELSE 1

\* One iteration of the loop of get_all_zones_rest_api that leaves the loop at
\* the last page before its zones are appended (faulty variant).
rest_page_drop_last(zs, pg, r) ==
    IF r.kind \in {"transport", "http", "badjson"}
    THEN [st |-> "return", zones |-> <<>>, page |-> pg]
    ELSE IF r.kind = "nonobject" THEN [st |-> "raise", zones |-> zs, page |-> pg]
    ELSE IF ~r.success THEN [st |-> "return", zones |-> <<>>, page |-> pg]
    ELSE IF r.result = <<>> THEN [st |-> "return", zones |-> zs, page |-> pg]
    ELSE IF pg >= rest_total_pages(r)
         THEN [st |-> "return", zones |-> zs, page |-> pg]
         ELSE [st |-> "next", zones |-> rest_extend(zs, r.result), page |-> pg + 1]

\* One iteration of the loop of get_all_zones_rest_api that returns the zones
\* of the earlier pages when a page request fails (faulty variant).
rest_page_keep_partial(zs, pg, r) ==
    IF r.kind \in {"transport", "http", "badjson"}
    THEN [st |-> "return", zones |-> zs, page |-> pg]
    ELSE IF r.kind = "nonobject" THEN [st |-> "raise", zones |-> zs, page |-> pg]
    ELSE IF ~r.success THEN [st |-> "return", zones |-> zs, page |-> pg]
    ELSE IF r.result = <<>> THEN [st |-> "return", zones |-> zs, page |-> pg]
    ELSE IF pg >= rest_total_pages(r)
         THEN [st |-> "return", zones |-> rest_extend(zs, r.result), page |-> pg]
         ELSE [st |-> "next", zones |-> rest_extend(zs, r.result), page |-> pg + 1]

\* One iteration of the loop of get_all_zones_rest_api (src/q3.py:213-259)
\* with zones zs, page pg and the response r: the function returns a list
\* ("return"), goes on with the next page ("next"), or raises ("raise": the
\* AttributeError of data.get on a body that is null is not caught).
rest_page(zs, pg, r) ==
    IF r.kind \in {"transport", "http", "badjson"}
    THEN [st |-> "return", zones |-> <<>>, page |-> pg]
    ELSE IF r.kind = "nonobject" THEN [st |-> "raise", zones |-> zs, page |-> pg]
    ELSE IF ~r.success THEN [st |-> "return", zones |-> <<>>, page |-> pg]
    ELSE IF r.result = <<>> THEN [st |-> "return", zones |-> zs, page |-> pg]
    ELSE IF pg >= rest_total_pages(r)
         THEN [st |-> "return", zones |-> rest_extend(zs, r.result), page |-> pg]
         ELSE [st |-> "next", zones |-> rest_extend(zs, r.result), page |-> pg + 1]

\* src/q3.py:277: "if zones:" of get_all_zones.
rest_enough(zs) == zs # <<>>

\* get_all_zones_rest_api returns zs to get_all_zones (src/q3.py:275-278),
\* which returns them to main if there are any and falls back otherwise.
RestReturn(zs) ==
    /\ zones' = zs
    /\ discovered' = zs
    /\ pc' = IF rest_enough(zs) THEN "main" ELSE "fallback"
    /\ UNCHANGED <<page, exit_code>>

\* One page request of get_all_zones_rest_api (src/q3.py:213-259).
RestPage ==
    /\ pc = "rest"
    /\ \E r \in RestResponses :
        /\ Len(zones) + Len(r.result) <= MaxZones
        /\ LET step == rest_page(zones, page, r)
           IN  IF step.st = "return" THEN RestReturn(step.zones)
               ELSE IF step.st = "next"
                    THEN /\ zones' = step.zones
                         /\ page' = step.page
                         /\ UNCHANGED <<pc, discovered, exit_code>>
                    ELSE /\ pc' = "crashed"
                         /\ exit_code' = 1
                         /\ UNCHANGED <<zones, page, discovered>>
    /\ UNCHANGED <<args, i, time_chunks, j, chunk_stats, all_zone_stats,
                   global_tls_stats, zone_reports, zone_sum, events, exported>>
    /\ UNCHANGED <<ck_vars, ag_vars, zd_vars, ex_vars, xp_vars>>

\* src/q3.py:290-304: the zones of the GraphQL listing, named by their tag.
\* KeyError is caught; the TypeError of a null member is not.
gql_zone_list(data) ==
    IF data.shape \in {"no_data", "no_viewer", "no_zones"} THEN Returned(<<>>)
    ELSE IF data.shape \in {"null_data", "null_viewer", "null_zones"} THEN Raised
    ELSE Returned([n \in 1..Len(data.zones) |->
                     [zoneTag |-> data.zones[n], name |-> data.zones[n]]])

\* The fallback of get_all_zones (src/q3.py:280-304) on the response r of the
\* GraphQL listing: the list returned, or an exception that nothing catches.
get_all_zones_fallback(r) ==
    LET res == execute_graphql_query(r)
    IN  IF res.exc THEN Raised
        ELSE IF ~truthy(res) THEN Returned(<<>>)
        ELSE gql_zone_list(res.value)

\* The fallback of get_all_zones (src/q3.py:280-304).
Fallback ==
    /\ pc = "fallback"
    /\ \E r \in ListingResponses :
        LET lst == get_all_zones_fallback(r)
        IN  IF lst.exc
            THEN /\ pc' = "crashed"
                 /\ exit_code' = 1
                 /\ UNCHANGED <<zones, discovered>>
            ELSE /\ pc' = "main"
                 /\ zones' = lst.value
                 /\ discovered' = lst.value
                 /\ UNCHANGED exit_code
    /\ UNCHANGED <<args, page, i, time_chunks, j, chunk_stats, all_zone_stats,
                   global_tls_stats, zone_reports, zone_sum, events, exported>>
    /\ UNCHANGED <<ck_vars, ag_vars, zd_vars, ex_vars, xp_vars>>

\* src/q3.py:518-520 without the exit: main goes on with no zone, runs the loop
\* over nothing and ends normally (faulty variant).
NoZones_fallthrough ==
    /\ pc = "main"
    /\ zones = <<>>
    /\ pc' = "summary"
    /\ UNCHANGED <<args, page, zones, discovered, i, time_chunks, j,
                   chunk_stats, all_zone_stats, global_tls_stats, zone_reports,
                   zone_sum, events, exported, exit_code>>
    /\ UNCHANGED <<ck_vars, ag_vars, zd_vars, ex_vars, xp_vars>>

\* src/q3.py:518-520
NoZones ==
    /\ pc = "main"
    /\ zones = <<>>
    /\ pc' = "exit"
    /\ exit_code' = 1
    /\ UNCHANGED <<args, page, zones, discovered, i, time_chunks, j,
                   chunk_stats, all_zone_stats, global_tls_stats, zone_reports,
                   zone_sum, events, exported>>
    /\ UNCHANGED <<ck_vars, ag_vars, zd_vars, ex_vars, xp_vars>>

\* src/q3.py:523-527 without the exit: main goes on with the empty filtered
\* list (faulty variant).
NoMatch_fallthrough ==
    /\ pc = "main"
    /\ zones # <<>>
    /\ args.zone_filter # <<>>
    /\ filter_zones(args.zone_filter, zones, 1) = <<>>
    /\ zones' = <<>>
    /\ pc' = "summary"
    /\ UNCHANGED <<args, page, discovered, i, time_chunks, j, chunk_stats,
                   all_zone_stats, global_tls_stats, zone_reports, zone_sum,
                   events, exported, exit_code>>
    /\ UNCHANGED <<ck_vars, ag_vars, zd_vars, ex_vars, xp_vars>>

\* src/q3.py:523-527
NoMatch ==
    /\ pc = "main"
    /\ zones # <<>>
    /\ args.zone_filter # <<>>
    /\ filter_zones(args.zone_filter, zones, 1) = <<>>
    /\ zones' = <<>>
    /\ pc' = "exit"
    /\ exit_code' = 1
    /\ UNCHANGED <<args, page, discovered, i, time_chunks, j, chunk_stats,
                   all_zone_stats, global_tls_stats, zone_reports, zone_sum,
                   events, exported>>
    /\ UNCHANGED <<ck_vars, ag_vars, zd_vars, ex_vars, xp_vars>>

\* src/q3.py:523-533: the zones to process, and the empty collections.
StartProcessing ==
    /\ pc = "main"
    /\ zones # <<>>
    /\ LET kept == IF args.zone_filter # <<>>
                   THEN filter_zones(args.zone_filter, zones, 1) ELSE zones
       IN  /\ kept # <<>>
           /\ zones' = kept
    /\ all_zone_stats' = <<>>
    /\ global_tls_stats' = <<>>
    /\ i' = 1
    /\ pc' = "zone"
    /\ UNCHANGED <<args, page, discovered, time_chunks, j, chunk_stats,
                   zone_reports, zone_sum, events, exported, exit_code>>
    /\ UNCHANGED <<ck_vars, ag_vars, zd_vars, ex_vars, xp_vars>>

\* src/q3.py:535-549 and the entry of fetch_zone_tls_stats_chunked
\* (src/q3.py:393-402).
ZoneBegin ==
    /\ pc = "zone"
    /\ time_chunks' = chunk_time_range(start_datetime, end_datetime,
                                       DefaultMaxChunkSeconds)
    /\ chunk_stats' = <<>>
    /\ j' = 1
    /\ zone_sum' = EmptyMap
    /\ pc' = "chunk"
    /\ UNCHANGED <<args, page, zones, discovered, i, all_zone_stats,
                   global_tls_stats, zone_reports, events, exported, exit_code>>
    /\ UNCHANGED <<ck_vars, ag_vars, zd_vars, ex_vars, xp_vars>>

\* One iteration of the loop of fetch_zone_tls_stats_chunked
\* (src/q3.py:404-419): the query, the pause, the extraction.
ChunkQuery ==
    /\ pc = "chunk"
    /\ j <= Len(time_chunks)
    /\ \E r \in StatResponses :
        LET res == execute_graphql_query(r)
            asked == Append(events, Ev("query", i, j))
            slept == IF args.delay > 0 THEN Append(asked, Ev("sleep", i, j))
                     ELSE asked
            got == IF res.exc THEN Raised
                   ELSE IF truthy(res) THEN process_tls_data_for_zone(res.value)
                   ELSE Returned(<<>>)
        IN  IF got.exc
            THEN /\ pc' = "crashed"
                 /\ exit_code' = 1
                 /\ events' = IF res.exc THEN asked ELSE slept
                 /\ UNCHANGED <<chunk_stats, j, zone_sum>>
            ELSE /\ chunk_stats' = chunk_stats_append(chunk_stats, res, got.value)
                 /\ j' = j + 1
                 /\ events' = slept
                 /\ zone_sum' = MapAdd(zone_sum, Contribution(r))
                 /\ UNCHANGED <<pc, exit_code>>
    /\ UNCHANGED <<args, page, zones, discovered, i, time_chunks,
                   all_zone_stats, global_tls_stats, zone_reports, exported>>
    /\ UNCHANGED <<ck_vars, ag_vars, zd_vars, ex_vars, xp_vars>>

\* src/q3.py:551-566: what main puts out for a zone when its statistics have
\* come back: the display and, if asked for, the export of a report that has
\* data, the line "Failed to get data" otherwise.
zone_outputs(evs, zone_index, zone_tls_stats, export_file) ==
    LET shown == IF zone_tls_stats # <<>>
                 THEN Append(evs, Ev("display", zone_index, 0))
                 ELSE Append(evs, Ev("failed", zone_index, 0))
    IN  IF zone_tls_stats # <<>> /\ export_file
        THEN Append(shown, Ev("export", zone_index, 0)) ELSE shown

\* The return of fetch_zone_tls_stats_chunked (src/q3.py:421-422) and the rest
\* of the zone's iteration in main (src/q3.py:551-570).
ZoneEnd ==
    /\ pc = "chunk"
    /\ j > Len(time_chunks)
    /\ LET zone_tls_stats == aggregate_tls_stats(chunk_stats)
           zone_name == zones[i].name
           zone_tag == zones[i].zoneTag
           written == zone_outputs(events, i, zone_tls_stats, args.export_file)
       IN  /\ all_zone_stats' = dict_set(all_zone_stats, zone_name, zone_tls_stats)
           /\ global_tls_stats' = main_fold(global_tls_stats, zone_tls_stats)
           /\ IF args.export_file
              THEN \E written_text \in
                       export_outcomes(export_zone_tls_stats(zone_name, zone_tag,
                                                             zone_tls_stats)) :
                       exported' = exported \o written_text
              ELSE exported' = exported
           /\ events' = IF i < Len(zones) /\ args.delay > 0
                        THEN Append(written, Ev("sleep", i, 0)) ELSE written
           /\ zone_reports' = Append(zone_reports, zone_tls_stats)
    /\ i' = i + 1
    /\ pc' = IF i < Len(zones) THEN "zone" ELSE "summary"
    /\ UNCHANGED <<args, page, zones, discovered, time_chunks, j, chunk_stats,
                   zone_sum, exit_code>>
    /\ UNCHANGED <<ck_vars, ag_vars, zd_vars, ex_vars, xp_vars>>

\* src/q3.py:572-590
Finish ==
    /\ pc = "summary"
    /\ \E summary \in BOOLEAN :
        events' = IF summary /\ global_tls_stats # <<>>
                  THEN Append(events, Ev("summary", 0, 0)) ELSE events
    /\ pc' = "done"
    /\ exit_code' = 0
    /\ UNCHANGED <<args, page, zones, discovered, i, time_chunks, j,
                   chunk_stats, all_zone_stats, global_tls_stats, zone_reports,
                   zone_sum, exported>>
    /\ UNCHANGED <<ck_vars, ag_vars, zd_vars, ex_vars, xp_vars>>

Next ==
    \/ RestPage
    \/ Fallback
    \/ NoZones
    \/ NoMatch
    \/ StartProcessing
    \/ ZoneBegin
    \/ ChunkQuery
    \/ ZoneEnd
    \/ Finish

Init == RunInit

Spec == Init /\ [][Next]_vars

----------------------------------------------------------------------------
(***************************************************************************)
(* Properties of the chunker.                                              *)
(***************************************************************************)

\* The instants a returned window string denotes, read back from the string.
WinStart(n) == fromisoformat(chunks[n][1]).inst
WinEnd(n) == fromisoformat(chunks[n][2]).inst
RangeStart == parse_arg(start_datetime).inst
RangeEnd == parse_arg(end_datetime).inst

ChunkValidCall ==
    /\ ck_pc = "returned"
    /\ RangeStart < RangeEnd
    /\ max_chunk_seconds >= 1

CeilDiv(a, b) == (a + b - 1) \div b

\* C1: for start < end and maxSpan >= 1 the returned list is non-empty, its
\* first window starts at start, its last window ends at end, every window
\* has start < end, every window starts where the previous one ends, and
\* the instants covered by the windows are exactly those of [start, end).
C1_ChunksCoverRange ==
    ChunkValidCall =>
        /\ Len(chunks) >= 1
        /\ WinStart(1) = RangeStart
        /\ WinEnd(Len(chunks)) = RangeEnd
        /\ \A n \in 1..Len(chunks) : WinStart(n) < WinEnd(n)
        /\ \A n \in 2..Len(chunks) : chunks[n][1] = chunks[n - 1][2]
        /\ \A n \in 1..Len(chunks) :
              RangeStart <= WinStart(n) /\ WinEnd(n) <= RangeEnd
        /\ \A n \in 2..Len(chunks) : WinStart(n) = WinEnd(n - 1)
        /\ UNION { WinStart(n)..(WinEnd(n) - 1) : n \in 1..Len(chunks) }
             = RangeStart..(RangeEnd - 1)

\* A call with offsets and the suffix Z in its arguments has returned several
\* windows, the last one shorter than the span.
C1_Witness ==
    /\ ChunkValidCall
    /\ Len(chunks) >= 2
    /\ start_datetime.z /\ end_datetime.off # 0
    /\ WinEnd(Len(chunks)) - WinStart(Len(chunks)) < max_chunk_seconds

\* C2: for start < end and maxSpan >= 1 the number of windows is
\* ceil((end - start) / maxSpan), no window is longer than maxSpan and every
\* window but the last has length maxSpan; the three-day range of scenario A
\* with a span of one day gives exactly three one-day windows.
C2_ChunkCountAndLengths ==
    /\ ChunkValidCall =>
        /\ Len(chunks) = CeilDiv(RangeEnd - RangeStart, max_chunk_seconds)
        /\ \A n \in 1..Len(chunks) : WinEnd(n) - WinStart(n) <= max_chunk_seconds
        /\ \A n \in 1..(Len(chunks) - 1) :
              WinEnd(n) - WinStart(n) = max_chunk_seconds
    /\ ( /\ ck_pc = "returned"
         /\ start_datetime = ScenarioA.s
         /\ end_datetime = ScenarioA.e
         /\ max_chunk_seconds = ScenarioA.span )
       => /\ Len(chunks) = 3
          /\ \A n \in 1..3 : WinEnd(n) - WinStart(n) = DaySeconds

\* The call of scenario A has returned its three windows.
C2_Witness ==
    /\ ck_pc = "returned"
    /\ start_datetime = ScenarioA.s
    /\ end_datetime = ScenarioA.e
    /\ max_chunk_seconds = ScenarioA.span
    /\ Len(chunks) = 3

\* C3: the chunker never returns a list of windows for a range with
\* start >= end (it fails with an invalid-range error instead).
C3_InvalidRangeRejected ==
    ck_pc = "returned" => RangeStart < RangeEnd

----------------------------------------------------------------------------
(***************************************************************************)
(* Properties of the aggregator.                                           *)
(***************************************************************************)

\* The identity and the transpositions of two neighbours.  They generate
\* every permutation of 1..n, and every list over the dicts of the model, of
\* every length up to MaxList, is an argument of some call: a result that no
\* transposition changes is one that no permutation changes.
Perms(n) ==
    { [m \in 1..n |-> IF m = a THEN a + 1 ELSE IF m = a + 1 THEN a ELSE m] :
        a \in 1..(n - 1) } \cup { [m \in 1..n |-> m] }

Permuted(list, p) == [n \in 1..Len(list) |-> list[p[n]]]

\* C4: aggregate_tls_stats gives the same mapping (same keys, same count per
\* key) for every permutation of its argument list, and so does main's fold
\* of per-zone stats into the global stats.
C4_FoldOrderIndependent ==
    ag_pc = "done" =>
        \A p \in Perms(Len(stats_list)) :
            /\ AsMap(aggregate_tls_stats(Permuted(stats_list, p)))
                 = AsMap(aggregated)
            /\ AsMap(fold_zones(<<>>, Permuted(stats_list, p), 1))
                 = AsMap(global_fold)

\* Three different dicts have been aggregated, a label of two of them summed.
C4_Witness ==
    /\ ag_pc = "done"
    /\ Len(stats_list) = 3
    /\ stats_list[1] # stats_list[2] /\ stats_list[2] # stats_list[3]
    /\ stats_list[1] # stats_list[3]
    /\ \E k \in Labels :
          /\ dict_has(stats_list[1], k) /\ dict_has(stats_list[3], k)
          /\ dict_get(stats_list[1], k) > 0 /\ dict_get(stats_list[3], k) > 0
          /\ dict_has(aggregated, k)
          /\ dict_get(aggregated, k)
               = dict_get(stats_list[1], k) + dict_get(stats_list[3], k)
                 + (IF dict_has(stats_list[2], k)
                    THEN dict_get(stats_list[2], k) ELSE 0)
    /\ Len(aggregated) = 2

----------------------------------------------------------------------------
(***************************************************************************)
(* Properties of the run.                                                  *)
(***************************************************************************)

\* The statistics queries issued so far.
QueryEvents == { n \in 1..Len(events) : events[n].e = "query" }
NumQueries == Cardinality(QueryEvents)

\* The windows of the run's range.
RunWindows ==
    chunk_time_range(start_datetime, end_datetime, DefaultMaxChunkSeconds)

\* get_all_zones has returned to main.
DiscoveryDone ==
    \/ pc \in {"main", "exit", "zone", "chunk", "summary", "done"}
    \/ (pc = "crashed" /\ i >= 1)

\* main is in, or past, its loop over the zones.
Processing ==
    \/ pc \in {"zone", "chunk", "summary", "done"}
    \/ (pc = "crashed" /\ i >= 1)

\* Two characters are the same letter, whatever their case.
SameLetter(a, b) == a = b \/ {a, b} = {"a", "A"} \/ {a, b} = {"b", "B"}

\* The name contains the filter as a substring, case ignored.
NameContains(name, f) ==
    \E k \in 0..(Len(name) - Len(f)) :
        \A n \in 1..Len(f) : SameLetter(name[k + n], f[n])

ScenarioB_zone1 == ("TLSv1.2" :> 100) @@ ("TLSv1.3" :> 50)
ScenarioB_zone2 == ("TLSv1.3" :> 25)
ScenarioB_global == ("TLSv1.2" :> 100) @@ ("TLSv1.3" :> 75)

\* C5: global_tls_stats is the element-wise sum of the mappings of the zones
\* completed so far (of the first k zones after the k-th, of all zones when
\* the run completes), its keys are the union of their keys, and the two
\* zones of scenario B give {TLSv1.2: 100, TLSv1.3: 75}.
C5_GlobalIsSumOfZones ==
    /\ AsMap(global_tls_stats) = MapSum(zone_reports, Len(zone_reports))
    /\ dict_keys(global_tls_stats)
         = UNION { dict_keys(zone_reports[n]) : n \in 1..Len(zone_reports) }
    /\ pc \in {"zone", "chunk"} => Len(zone_reports) = i - 1
    /\ pc \in {"summary", "done"} => Len(zone_reports) = Len(zones)
    /\ ( /\ Len(zone_reports) = 2
         /\ AsMap(zone_reports[1]) = ScenarioB_zone1
         /\ AsMap(zone_reports[2]) = ScenarioB_zone2 )
       => AsMap(global_tls_stats) = ScenarioB_global

\* The run of scenario B has completed.
C5_Witness ==
    /\ pc = "done"
    /\ Len(zone_reports) = 2
    /\ AsMap(zone_reports[1]) = ScenarioB_zone1
    /\ AsMap(zone_reports[2]) = ScenarioB_zone2
    /\ AsMap(global_tls_stats) = ScenarioB_global

\* C6: what fetch_zone_tls_stats_chunked aggregates is, after every chunk and
\* when it returns, the element-wise sum of the mappings of the responses of
\* its successful queries only: a failed query adds nothing to it.
C6_FailedChunkAddsNothing ==
    /\ pc = "chunk" => AsMap(aggregate_tls_stats(chunk_stats)) = zone_sum
    /\ (pc \in {"zone", "summary", "done"} /\ zone_reports # <<>>)
         => AsMap(zone_reports[Len(zone_reports)]) = zone_sum

\* A zone of two windows has returned the counts of its one successful query;
\* the other query failed.
C6_Witness ==
    /\ pc \in {"zone", "summary"}
    /\ Len(time_chunks) = 2
    /\ Len(chunk_stats) = 1
    /\ zone_reports # <<>>
    /\ AsMap(zone_reports[Len(zone_reports)]) = ScenarioB_zone1
    /\ zone_sum = ScenarioB_zone1

\* C7: once the zones are being processed no response to a statistics query
\* aborts the run, and the run ends having issued one query for every window
\* of every zone.
C7_NoQueryAbortsRun ==
    /\ i >= 1 => pc # "crashed"
    /\ pc = "done" => NumQueries = Len(zones) * Len(RunWindows)

\* C8: when discovery has returned no zone, the run issues no query and its
\* only continuation is the exit with status 1.
C8_NoZonesIsFatal ==
    (DiscoveryDone /\ discovered = <<>>) =>
        /\ pc \in {"main", "exit"}
        /\ events = <<>>
        /\ pc = "exit" => exit_code = 1
        /\ pc = "main" => (ENABLED NoZones /\ ~ENABLED StartProcessing)

\* Both listings came back empty and the run has exited with status 1.
C8_Witness ==
    /\ pc = "exit"
    /\ discovered = <<>>
    /\ exit_code = 1
    /\ events = <<>>

\* No discovered zone has a name that contains the filter.
NothingMatches ==
    /\ args.zone_filter # <<>>
    /\ discovered # <<>>
    /\ \A n \in 1..Len(discovered) :
          ~NameContains(discovered[n].name, args.zone_filter)

\* C9: when a filter is given that no discovered zone's name contains, the
\* run issues no query and its only continuation is the exit with status 1.
C9_NoMatchIsFatal ==
    (DiscoveryDone /\ NothingMatches) =>
        /\ pc \in {"main", "exit"}
        /\ events = <<>>
        /\ pc = "exit" => exit_code = 1
        /\ pc = "main" => (ENABLED NoMatch /\ ~ENABLED StartProcessing)

\* Zones were discovered, none matched the filter, the run has exited.
C9_Witness ==
    /\ pc = "exit"
    /\ NothingMatches
    /\ Len(discovered) = 2
    /\ exit_code = 1
    /\ events = <<>>

\* The discovered zones whose name contains the filter, in discovery order.
Matching(zs, f) ==
    LET Keep(z) == NameContains(z.name, f)
    IN  SelectSeq(zs, Keep)

\* C10: the zones processed are the discovered zones whose name contains the
\* filter (case ignored), in discovery order, and all discovered zones when
\* there is no filter; only they are queried, each of them has been handled
\* when the run completes, and the run exits for want of a match only when
\* no discovered zone matches.
C10_FilterKeepsMatchingZones ==
    /\ (pc = "exit" /\ discovered # <<>>) =>
          Matching(discovered, args.zone_filter) = <<>>
    /\ Processing =>
        /\ args.zone_filter # <<>> => zones = Matching(discovered, args.zone_filter)
        /\ args.zone_filter = <<>> => zones = discovered
        /\ \A n \in QueryEvents : events[n].zone \in 1..Len(zones)
        /\ pc = "done" =>
              { events[n].zone : n \in { m \in 1..Len(events) :
                                           events[m].e \in {"display", "failed"} } }
                = 1..Len(zones)

\* Of two discovered zones with different names, listed "ba" first, the
\* filter, written in another case than the names, kept both in that order;
\* both have been queried and the run has completed.
C10_Witness ==
    /\ pc = "done"
    /\ args.zone_filter = <<"B">>
    /\ Len(discovered) = 2
    /\ discovered[1].name = <<"b", "a">>
    /\ discovered[2].name = <<"A", "b">>
    /\ zones = discovered
    /\ \A z \in 1..2 : \E n \in QueryEvents : events[n].zone = z

----------------------------------------------------------------------------
(***************************************************************************)
(* get_all_zones() of src/q3.py on its own, one network call a step, with  *)
(* the page requests it made kept in zd_log.                               *)
(***************************************************************************)

\* Entry of get_all_zones and of get_all_zones_rest_api (src/q3.py:208-210).
ZonesInit ==
    /\ zd_pc = "rest"
    /\ zd_page = 1
    /\ zd_zones = <<>>
    /\ zd_log = <<>>
    /\ zd_rest = <<>>
    /\ zd_gql = FALSE
    /\ zd_result = <<>>
    /\ ChunkIdle
    /\ AggIdle
    /\ RunIdle
    /\ ExecIdle
    /\ ExportIdle

\* One page request of get_all_zones_rest_api (src/q3.py:213-259) and, when
\* it returns, the test of get_all_zones (src/q3.py:275-278).
ZonesRestPage ==
    /\ zd_pc = "rest"
    /\ \E r \in RestResponses :
        /\ Len(zd_zones) + Len(r.result) <= MaxZones
        /\ zd_log' = Append(zd_log, [page |-> zd_page, r |-> r])
        /\ LET step == rest_page(zd_zones, zd_page, r)
           IN  /\ zd_zones' = step.zones
               /\ zd_page' = step.page
               /\ zd_pc' = IF step.st = "next" THEN "rest"
                           ELSE IF step.st = "raise" THEN "raised"
                           ELSE IF rest_enough(step.zones) THEN "returned"
                           ELSE "fallback"
               /\ zd_rest' = IF step.st = "return" THEN step.zones ELSE zd_rest
               /\ zd_result' = IF step.st = "return" /\ rest_enough(step.zones)
                               THEN step.zones ELSE zd_result
    /\ UNCHANGED zd_gql
    /\ UNCHANGED <<ck_vars, ag_vars, run_vars, ex_vars, xp_vars>>

\* The fallback of get_all_zones (src/q3.py:280-304).
ZonesFallback ==
    /\ zd_pc = "fallback"
    /\ zd_gql' = TRUE
    /\ \E r \in ListingResponses :
        LET lst == get_all_zones_fallback(r)
        IN  /\ zd_pc' = IF lst.exc THEN "raised" ELSE "returned"
            /\ zd_result' = IF lst.exc THEN zd_result ELSE lst.value
    /\ UNCHANGED <<zd_page, zd_zones, zd_log, zd_rest>>
    /\ UNCHANGED <<ck_vars, ag_vars, run_vars, ex_vars, xp_vars>>

ZonesNext == ZonesRestPage \/ ZonesFallback

SpecZones == ZonesInit /\ [][ZonesNext]_vars

----------------------------------------------------------------------------
(***************************************************************************)
(* Properties of zone discovery.                                           *)
(***************************************************************************)

\* get_all_zones is over: it returned a list or an exception left it.
ZonesEnded == zd_pc \in {"returned", "raised"}

\* C11: the GraphQL listing is requested if and only if the REST listing
\* yielded no zone; a non-empty REST listing is returned as it is, without
\* the GraphQL listing; every zone of the GraphQL listing is named by its
\* identifier; and when neither listing yields a zone get_all_zones returns
\* the empty list.
C11_FallbackIffPrimaryEmpty ==
    /\ zd_gql => zd_rest = <<>>
    /\ ZonesEnded => (zd_gql <=> zd_rest = <<>>)
    /\ (ZonesEnded /\ zd_rest # <<>>) => (zd_result = zd_rest /\ ~zd_gql)
    /\ (ZonesEnded /\ zd_gql) =>
          \A n \in 1..Len(zd_result) : zd_result[n].name = zd_result[n].zoneTag
    /\ (ZonesEnded /\ zd_rest = <<>> /\ zd_result = <<>>) => zd_pc = "returned"

\* Every page request so far got an object with its success flag set.
AllPagesSucceeded ==
    \A n \in 1..Len(zd_log) : zd_log[n].r.kind = "object" /\ zd_log[n].r.success

\* The page request n met the condition "page >= total_pages".
LastPageReached(n) == zd_log[n].page >= rest_total_pages(zd_log[n].r)

\* The zones of the pages requested, from the first to page n, in order.
RECURSIVE PagesConcat(_)
PagesConcat(n) ==
    IF n = 0 THEN <<>>
    ELSE rest_extend(PagesConcat(n - 1), zd_log[n].r.result)

\* The pagination of get_all_zones_rest_api is over.
PaginationOver == zd_pc # "rest"

\* C12 as stated: pages are requested in the order 1, 2, 3, ...; the
\* pagination stops only at a page whose number is >= the total_pages of its
\* response; and when every request succeeded the list returned holds the
\* zones of every page from 1 to total_pages, in page order, each once.
C12_PaginationStopsOnlyAtLastPage ==
    /\ \A n \in 1..Len(zd_log) : zd_log[n].page = n
    /\ (PaginationOver /\ AllPagesSucceeded) =>
          /\ LastPageReached(Len(zd_log))
          /\ Len(zd_log) >= rest_total_pages(zd_log[Len(zd_log)].r)
          /\ zd_rest = PagesConcat(Len(zd_log))

\* C12, amended: pages are requested in the order 1, 2, 3, ...; while every
\* request succeeds the pagination goes on after a page exactly if that page
\* has zones and its number is below the total_pages of its response (1 when
\* the response has none), so it stops at the first page that is empty or
\* whose number is >= total_pages; the list then returned holds the zones of
\* every page requested, in page order, each once.
C12_PaginationStopsAtEmptyOrLastPage ==
    /\ \A n \in 1..Len(zd_log) : zd_log[n].page = n
    /\ \A n \in 1..(Len(zd_log) - 1) :
          /\ zd_log[n].r.kind = "object" /\ zd_log[n].r.success
          /\ zd_log[n].r.result # <<>>
          /\ ~LastPageReached(n)
    /\ zd_pc = "rest" => zd_page = Len(zd_log) + 1
    /\ (zd_pc = "rest" /\ zd_log # <<>>) =>
          /\ AllPagesSucceeded
          /\ zd_log[Len(zd_log)].r.result # <<>>
          /\ ~LastPageReached(Len(zd_log))
          /\ zd_zones = PagesConcat(Len(zd_log))
    /\ (PaginationOver /\ AllPagesSucceeded) =>
          /\ \/ zd_log[Len(zd_log)].r.result = <<>>
             \/ LastPageReached(Len(zd_log))
          /\ zd_rest = PagesConcat(Len(zd_log))

\* Two pages were requested, both had zones, and the list of both was returned.
C12_Witness ==
    /\ zd_pc = "returned"
    /\ ~zd_gql
    /\ Len(zd_log) = 2
    /\ AllPagesSucceeded
    /\ zd_log[1].r.result # <<>>
    /\ zd_log[2].r.result # <<>>
    /\ Len(zd_rest) = 2

\* The page request n failed: a transport or HTTP error, a body that does
\* not decode, or a success flag that is false or missing.
PageFailed(n) ==
    \/ zd_log[n].r.kind \in {"transport", "http", "badjson"}
    \/ (zd_log[n].r.kind = "object" /\ ~zd_log[n].r.success)

\* C25: when a page request fails, get_all_zones_rest_api returns the empty
\* list, whatever the earlier pages held, so a list it returns with zones is
\* the whole of the pages requested and the zones get_all_zones returns
\* after a failed page are those of the GraphQL listing; an empty page ends
\* the pagination with the zones of the pages before it.
C25_FailedPageDiscardsListing ==
    /\ (PaginationOver /\ \E n \in 1..Len(zd_log) : PageFailed(n)) =>
          /\ zd_rest = <<>>
          /\ PageFailed(Len(zd_log))
          /\ zd_pc = "returned" => zd_gql
          /\ \A n \in 1..Len(zd_result) :
                zd_result[n].name = zd_result[n].zoneTag
    /\ zd_rest # <<>> =>
          /\ AllPagesSucceeded
          /\ zd_rest = PagesConcat(Len(zd_log))
    /\ (PaginationOver /\ AllPagesSucceeded
          /\ zd_log[Len(zd_log)].r.result = <<>>) =>
          zd_rest = PagesConcat(Len(zd_log) - 1)

\* Page 1 gave a zone, the request of page 2 failed, and the REST listing
\* came back empty.
C25_Witness ==
    /\ PaginationOver
    /\ Len(zd_log) = 2
    /\ zd_log[1].r.result # <<>>
    /\ PageFailed(2)
    /\ zd_rest = <<>>

\* Page 1 gave a zone, page 2 was empty, and the zone of page 1 was returned.
C25_WitnessEmptyPage ==
    /\ zd_pc = "returned"
    /\ Len(zd_log) = 2
    /\ AllPagesSucceeded
    /\ zd_log[2].r.result = <<>>
    /\ Len(zd_rest) = 1

----------------------------------------------------------------------------
(***************************************************************************)
(* Properties of the order of the queries and of the pauses.               *)
(***************************************************************************)

IsQuery(ev) == ev.e = "query"
IsSleep(ev) == ev.e = "sleep"

\* The (zone, window) pairs queried so far, in the order of the queries.
QuerySeq ==
    LET qs == SelectSeq(events, IsQuery)
    IN  [n \in 1..Len(qs) |-> <<qs[n].zone, qs[n].win>>]

\* The pairs of nz zones and nw windows, zone after zone and, within a zone,
\* window after window.
ZoneMajor(nz, nw) ==
    [n \in 1..(nz * nw) |-> <<((n - 1) \div nw) + 1, ((n - 1) % nw) + 1>>]

\* The queries issued so far are the first pairs of the zone-major order.
QueriesArePrefix ==
    LET all == ZoneMajor(Len(zones), Len(RunWindows))
    IN  /\ Len(QuerySeq) <= Len(all)
        /\ QuerySeq = SubSeq(all, 1, Len(QuerySeq))

\* The run has ended after it entered its loop over the zones.
RunOver == pc = "done" \/ (pc = "crashed" /\ i >= 1)

\* C13: the statistics queries are issued zone after zone in discovery order
\* and, within a zone, window after window; no pair is queried twice; and a
\* run that has ended has queried every (zone, window) pair exactly once.
C13_OneQueryPerPairZoneMajor ==
    Processing =>
        /\ QueriesArePrefix
        /\ RunOver => QuerySeq = ZoneMajor(Len(zones), Len(RunWindows))

\* The positions of the pauses between the positions a and b of the log.
SleepsBetween(a, b) == { n \in (a + 1)..(b - 1) : IsSleep(events[n]) }

\* The queries at a and b follow each other: no query lies between them.
ConsecutiveQueries(a, b) ==
    /\ a \in QueryEvents
    /\ b \in QueryEvents
    /\ a < b
    /\ \A n \in (a + 1)..(b - 1) : n \notin QueryEvents

\* C14: with a pacing delay > 0 there is exactly one pause between every two
\* consecutive statistics queries, within a zone and from one zone to the
\* next, and when the run is complete no pause follows its last query.
C14_OnePauseBetweenQueries ==
    args.delay > 0 =>
        /\ \A a, b \in QueryEvents :
              ConsecutiveQueries(a, b) => Cardinality(SleepsBetween(a, b)) = 1
        /\ pc = "done" =>
              \A a \in QueryEvents :
                  (\A b \in QueryEvents : b <= a) =>
                      SleepsBetween(a, Len(events) + 1) = {}

----------------------------------------------------------------------------
(***************************************************************************)
(* One statistics query on its own: the executor of one of the scripts and *)
(* then what is done with the value returned, by                           *)
(* fetch_zone_tls_stats_chunked in q3 (src/q3.py:412-419) and by main in   *)
(* q2 (src/q2.py:438-456), and what main puts out for the zone, which in   *)
(* q3 had this one window.                                                 *)
(***************************************************************************)

Scripts == {"q1", "q2", "q3"}

\* What the endpoint may answer to the one query.
ExecResponses ==
    StatResponses \cup { Resp("object", "absent", "zones", PayloadC) }

ExecInit ==
    /\ ex_pc = "call"
    /\ ex_script \in Scripts
    /\ ex_response \in ExecResponses
    /\ ex_result = <<>>
    /\ ex_prints = <<>>
    /\ ex_stats = <<>>
    /\ ex_exit = -1
    /\ ChunkIdle
    /\ AggIdle
    /\ RunIdle
    /\ ZonesIdle
    /\ ExportIdle

\* The call of execute_graphql_query.  An exception that leaves it is caught
\* nowhere and ends the process with status 1.
ExecCall ==
    /\ ex_pc = "call"
    /\ LET res == IF ex_script = "q1" THEN execute_graphql_query_q1(ex_response)
                  ELSE execute_graphql_query(ex_response)
       IN  /\ ex_result' = res
           /\ ex_prints' = IF ex_script = "q1" THEN executor_prints_q1(ex_response)
                           ELSE executor_prints(ex_response)
           /\ ex_pc' = IF res.exc THEN "raised"
                       ELSE IF ex_script = "q1" THEN "done"
                       ELSE "extract"
           /\ ex_exit' = IF res.exc THEN 1 ELSE ex_exit
    /\ UNCHANGED <<ex_script, ex_response, ex_stats>>
    /\ UNCHANGED <<ck_vars, ag_vars, run_vars, zd_vars, xp_vars>>

\* src/q3.py:415-419 and src/q2.py:440-441: the value returned is handed to
\* process_tls_data_for_zone if it is true; otherwise q3 prints that the
\* chunk failed and q2 goes to the else branch of its main.
ExecExtract ==
    /\ ex_pc = "extract"
    /\ IF truthy(ex_result)
       THEN LET got == process_tls_data_for_zone(ex_result.value)
            IN  /\ ex_pc' = IF got.exc THEN "raised" ELSE "done"
                /\ ex_exit' = IF got.exc THEN 1 ELSE ex_exit
                /\ ex_stats' = got.value
                /\ ex_prints' = ex_prints \o process_prints(ex_result.value)
       ELSE /\ ex_pc' = "done"
            /\ ex_prints' = IF ex_script = "q3"
                            THEN Append(ex_prints, "chunk_failed") ELSE ex_prints
            /\ UNCHANGED <<ex_stats, ex_exit>>
    /\ UNCHANGED <<ex_script, ex_response, ex_result>>
    /\ UNCHANGED <<ck_vars, ag_vars, run_vars, zd_vars, xp_vars>>

\* What main puts out for the zone.  In q3 fetch_zone_tls_stats_chunked
\* returns the aggregate of chunk_stats (src/q3.py:421-422) and main displays
\* it if it has data and prints "Failed to get data" otherwise
\* (src/q3.py:551-566).  In q2 main displays the statistics of every result
\* that is true, empty or not, and prints "Failed to get data" for one that
\* is false (src/q2.py:440-456).
ExecReport ==
    /\ ex_pc = "done"
    /\ ex_script \in {"q2", "q3"}
    /\ LET zone_tls_stats ==
               aggregate_tls_stats(chunk_stats_append(<<>>, ex_result, ex_stats))
           shown == IF ex_script = "q3" THEN zone_tls_stats # <<>>
                    ELSE truthy(ex_result)
       IN  ex_prints' = Append(ex_prints, IF shown THEN "display"
                                          ELSE "zone_failed")
    /\ ex_pc' = "reported"
    /\ UNCHANGED <<ex_script, ex_response, ex_result, ex_stats, ex_exit>>
    /\ UNCHANGED <<ck_vars, ag_vars, run_vars, zd_vars, xp_vars>>

\* src/q1.py:239-248: main of q1 after its executor.  On None it exits with
\* status 1 ("if response_data is None", so that the empty object goes on);
\* otherwise it calls process_tls_data and returns, and the status is 0.
ExecMain ==
    /\ ex_pc = "done"
    /\ ex_script = "q1"
    /\ IF ex_result.none
       THEN /\ ex_exit' = 1
            /\ UNCHANGED ex_prints
       ELSE /\ ex_exit' = 0
            /\ ex_prints' = ex_prints \o process_tls_data(ex_result.value)
    /\ ex_pc' = "ended"
    /\ UNCHANGED <<ex_script, ex_response, ex_result, ex_stats>>
    /\ UNCHANGED <<ck_vars, ag_vars, run_vars, zd_vars, xp_vars>>

ExecNext == ExecCall \/ ExecExtract \/ ExecReport \/ ExecMain

SpecExec == ExecInit /\ [][ExecNext]_vars

----------------------------------------------------------------------------
(***************************************************************************)
(* Properties of the executor and of the extraction.                       *)
(***************************************************************************)

\* execute_graphql_query has been called and is over.
ExecCalled == ex_pc \in {"extract", "done", "reported", "ended", "raised"}

\* One of the failures of a query: a transport-level error, a non-2xx
\* response, a malformed body (one that does not decode, or that is not an
\* object), or a non-null errors member.
IsQueryFailure(r) ==
    \/ r.kind \in {"transport", "http", "badjson", "nonobject"}
    \/ r.errors = "present"

\* C15: execute_graphql_query never raises; on a transport-level error, a
\* non-2xx response, a malformed body or a non-null errors member it returns
\* None; and it returns the response data exactly when none of these occurred.
C15_ExecutorNeverRaises ==
    ExecCalled =>
        /\ ~ex_result.exc
        /\ IsQueryFailure(ex_response) => ex_result.none
        /\ ~IsQueryFailure(ex_response) =>
              (~ex_result.none /\ ex_result.value = ex_response)

\* C16: in every script, a well-formed response whose errors member is null
\* is returned as a success and a note about it is printed.
C16_NullErrorsIsFlaggedSuccess ==
    (ExecCalled /\ ex_response.kind = "object" /\ ex_response.errors = "null") =>
        /\ ~ex_result.exc
        /\ ~ex_result.none
        /\ ex_result.value = ex_response
        /\ \E n \in 1..Len(ex_prints) : ex_prints[n] = "errors_null_note"

\* The executor returned a body that process_tls_data_for_zone is called on
\* and in which a member of the data/viewer/zones nesting is missing or null.
StructuralLookupFails ==
    /\ ex_script \in {"q2", "q3"}
    /\ ex_pc \in {"done", "reported", "raised"}
    /\ ~ex_result.exc
    /\ truthy(ex_result)
    /\ ex_result.value.shape # "zones"

\* C17: a body that fails a structural lookup contributes the empty mapping,
\* the failure is reported, and no exception leaves
\* process_tls_data_for_zone.
C17_LookupFailureIsEmptyAndReported ==
    StructuralLookupFails =>
        /\ ex_pc # "raised"
        /\ ex_stats = <<>>
        /\ \E n \in 1..Len(ex_prints) : ex_prints[n] = "unexpected_structure"

\* A message that tells of a failure has been printed.
IsWarning(m) ==
    m \in {"request_error", "graphql_errors", "chunk_failed",
           "unexpected_structure"}
WarningEmitted == \E n \in 1..Len(ex_prints) : IsWarning(ex_prints[n])

\* The query returned a failure: None, or a body that counts as none.
QueryReturnedFailure == ~ex_result.exc /\ ~truthy(ex_result)

\* C23: when the query has returned a failure, or its result has failed the
\* extraction, a warning has been emitted by the time the query is dealt
\* with (so that no warning means no failure); and the zone is reported as
\* failed only if its query, or the extraction of its result, failed.
C23_FailuresAreSurfaced ==
    (ex_script \in {"q2", "q3"} /\ ex_pc \in {"done", "reported"}) =>
        /\ (QueryReturnedFailure \/ StructuralLookupFails) => WarningEmitted
        /\ (\E n \in 1..Len(ex_prints) : ex_prints[n] = "zone_failed") =>
              (QueryReturnedFailure \/ StructuralLookupFails)

----------------------------------------------------------------------------
(***************************************************************************)
(* Properties of the exit status.                                          *)
(***************************************************************************)

\* The process has ended.
ProcessEnded == exit_code # -1

\* Discovery returned zones and the filter, if there is one, keeps some.
SomeZoneToProcess ==
    /\ discovered # <<>>
    /\ args.zone_filter # <<>> => Matching(discovered, args.zone_filter) # <<>>

\* C18: the exit status is zero whenever discovery yields at least one zone
\* and the filter (if any) matches at least one, however many queries
\* failed; it is non-zero only when discovery yields nothing or the filter
\* matches nothing (the credential is given in every run of this model).
C18_ExitStatusZeroDespiteFailures ==
    ProcessEnded =>
        /\ SomeZoneToProcess => exit_code = 0
        /\ exit_code # 0 => ~SomeZoneToProcess

----------------------------------------------------------------------------
(***************************************************************************)
(* export_zone_tls_stats() of src/q3.py on its own: one call, on a file    *)
(* opened for appending.                                                   *)
(***************************************************************************)

\* The mappings exported: no, one or two labels, with the counts 0, 25, 100.
ExportItem == [k : Labels, v : {0, 25, 100}]
ExportDicts ==
    {<<>>}
    \cup { <<a>> : a \in ExportItem }
    \cup { <<p[1], p[2]>> : p \in {q \in ExportItem \X ExportItem : q[1].k # q[2].k} }

\* What the file holds before the call.
ExportFiles == { <<>>, export_line(<<"b">>, <<"2">>, "TLSv1.3", 7) }

ExportInit ==
    /\ xp_pc = "call"
    /\ xp_zone \in { rest_zone(z) : z \in ZoneSet }
    /\ xp_stats \in ExportDicts
    /\ xp_io \in BOOLEAN
    /\ xp_file \in ExportFiles
    /\ ChunkIdle
    /\ AggIdle
    /\ RunIdle
    /\ ZonesIdle
    /\ ExecIdle

\* The call: nothing is written for an empty mapping (src/q3.py:460-463);
\* when open() or write() raises IOError (src/q3.py:472-473) the file has what
\* reached it before.
ExportCall ==
    /\ xp_pc = "call"
    /\ LET text == export_zone_tls_stats(xp_zone.name, xp_zone.zoneTag, xp_stats)
       IN  \E written_text \in export_outcomes(text) :
               /\ xp_io => written_text = text
               /\ xp_file' = xp_file \o written_text
    /\ xp_pc' = "done"
    /\ UNCHANGED <<xp_zone, xp_stats, xp_io>>
    /\ UNCHANGED <<ck_vars, ag_vars, run_vars, zd_vars, ex_vars>>

ExportNext == ExportCall

SpecExport == ExportInit /\ [][ExportNext]_vars

----------------------------------------------------------------------------
(***************************************************************************)
(* Properties of the export.                                               *)
(***************************************************************************)

\* The fields of a line: what lies between its semicolons.
RECURSIVE SplitFields(_)
SplitFields(line) ==
    IF \A n \in 1..Len(line) : line[n] # ";" THEN <<line>>
    ELSE LET k == CHOOSE n \in 1..Len(line) :
                      line[n] = ";" /\ \A m \in 1..(n - 1) : line[m] # ";"
         IN  <<SubSeq(line, 1, k - 1)>> \o SplitFields(SubSeq(line, k + 1, Len(line)))

\* The number a sequence of decimal digits denotes.
RECURSIVE ParseInt(_)
ParseInt(ds) ==
    IF ds = <<>> THEN 0
    ELSE 10 * ParseInt(SubSeq(ds, 1, Len(ds) - 1))
         + (CHOOSE d \in 0..9 : digit_char(d) = ds[Len(ds)])

\* The lines of a text: what lies between its newlines.
RECURSIVE TextLines(_)
TextLines(text) ==
    IF text = <<>> THEN <<>>
    ELSE IF \A n \in 1..Len(text) : text[n] # "\n" THEN <<text>>
    ELSE LET k == CHOOSE n \in 1..Len(text) :
                      text[n] = "\n" /\ \A m \in 1..(n - 1) : text[m] # "\n"
         IN  <<SubSeq(text, 1, k - 1)>> \o TextLines(SubSeq(text, k + 1, Len(text)))

\* The lines the call wrote: those after what the file held before.
LinesWritten(before) == TextLines(SubSeq(xp_file, Len(before) + 1, Len(xp_file)))

\* The protocol label a field spells.
LabelOf(field) == CHOOSE l \in Labels \cup {"Unknown"} : str_label(l) = field

\* The protocol -> count mapping read back from lines.
Reparsed(lines) ==
    LET F(n) == SplitFields(lines[n])
    IN  [k \in { LabelOf(F(n)[3]) : n \in 1..Len(lines) } |->
            ParseInt(F(CHOOSE n \in 1..Len(lines) : LabelOf(F(n)[3]) = k)[4])]

\* The mapping restricted to its non-zero entries.
NonZero(d) ==
    LET m == AsMap(d)
    IN  [k \in { l \in DOMAIN m : m[l] # 0 } |-> m[k]]

\* C19: when the file can be written, the call writes exactly one line
\* zoneName;zoneIdentifier;protocolLabel;count per protocol with a non-zero
\* count, writes no line for a zero count, and the lines read back give the
\* mapping restricted to its non-zero entries.
C19_ExportRoundTrip ==
    (xp_pc # "call" /\ xp_io) =>
        \E before \in ExportFiles :
            /\ Len(before) <= Len(xp_file)
            /\ SubSeq(xp_file, 1, Len(before)) = before
            /\ LET lines == LinesWritten(before)
               IN  /\ \A n \in 1..Len(lines) :
                         /\ Len(SplitFields(lines[n])) = 4
                         /\ SplitFields(lines[n])[1] = xp_zone.name
                         /\ SplitFields(lines[n])[2] = xp_zone.zoneTag
                         /\ ParseInt(SplitFields(lines[n])[4]) # 0
                   /\ Len(lines) = Cardinality(DOMAIN NonZero(xp_stats))
                   /\ Reparsed(lines) = NonZero(xp_stats)

----------------------------------------------------------------------------
(***************************************************************************)
(* Properties of the per-zone collection.                                  *)
(***************************************************************************)

\* Every entry of all_zone_stats is, after the step, the entry it was.
EntriesKept ==
    \A n \in 1..Len(all_zone_stats) :
        /\ dict_has(all_zone_stats', all_zone_stats[n].k)
        /\ dict_get(all_zone_stats', all_zone_stats[n].k) = all_zone_stats[n].v

\* C20: a zone's report, once stored in all_zone_stats, is never modified or
\* replaced by the processing of a later zone, and when the run is complete
\* the collection holds one entry for each processed zone: its report.
C20_NoRollback ==
    [][ /\ EntriesKept
        /\ pc' = "done" =>
              /\ Len(all_zone_stats') = Len(zones')
              /\ \A n \in 1..Len(zones') :
                    /\ dict_has(all_zone_stats', zones'[n].name)
                    /\ dict_get(all_zone_stats', zones'[n].name) = zone_reports'[n]
      ]_vars

----------------------------------------------------------------------------
(***************************************************************************)
(* Properties of the order of the outputs.                                 *)
(***************************************************************************)

\* The positions of the log where something is put out for zone z.
OutputsOf(z) ==
    { n \in 1..Len(events) :
        events[n].zone = z /\ events[n].e \in {"display", "failed", "export"} }

\* The positions of the log where the kind of event e happens for zone z.
EventsOf(e, z) == { n \in 1..Len(events) : events[n].e = e /\ events[n].zone = z }

\* The zones whose iteration of main's loop is over.
ZonesCompleted == 1..Len(zone_reports)

\* C21: the report of every completed zone is handed to the display once,
\* and to the export once when an export file is given; that happens after
\* all the queries of the zone and before every query of a later zone; and
\* the global summary comes only after the report of the last zone has been
\* handed over.
C21_OutputsStreamInZoneOrder ==
    /\ \A n \in 1..Len(events) :
          events[n].e \in {"display", "failed", "export"} =>
              /\ events[n].zone \in ZonesCompleted
              /\ Cardinality({ q \in QueryEvents :
                                 q < n /\ events[q].zone = events[n].zone })
                    = Len(RunWindows)
              /\ \A q \in QueryEvents :
                    /\ events[q].zone <= events[n].zone => q < n
                    /\ events[q].zone > events[n].zone => q > n
    /\ \A z \in ZonesCompleted :
          /\ Cardinality(EventsOf("display", z)) = 1
          /\ Cardinality(EventsOf("export", z))
                = (IF args.export_file THEN 1 ELSE 0)
    /\ \A n \in 1..Len(events) :
          events[n].e = "summary" =>
              /\ pc = "done"
              /\ n = Len(events)
              /\ ZonesCompleted = 1..Len(zones)
              /\ \A z \in 1..Len(zones) : \E m \in EventsOf("display", z) : m < n

----------------------------------------------------------------------------
(***************************************************************************)
(* Properties of the counts.                                               *)
(***************************************************************************)

\* Every count of the dict d is a non-negative integer.
CountsNonNegative(d) == \A n \in 1..Len(d) : d[n].v \in Nat

\* Every count of every per-zone mapping and of the global mapping is a
\* non-negative integer.
AllCountsNonNegative ==
    /\ CountsNonNegative(global_tls_stats)
    /\ \A n \in 1..Len(chunk_stats) : CountsNonNegative(chunk_stats[n])
    /\ \A n \in 1..Len(zone_reports) : CountsNonNegative(zone_reports[n])
    /\ \A n \in 1..Len(all_zone_stats) : CountsNonNegative(all_zone_stats[n].v)

\* In the step every label of the global mapping stays and its count does
\* not decrease.
GlobalCountsGrow ==
    \A n \in 1..Len(global_tls_stats) :
        /\ dict_has(global_tls_stats', global_tls_stats[n].k)
        /\ dict_get(global_tls_stats', global_tls_stats[n].k) >= global_tls_stats[n].v

\* C22: with non-negative upstream counts, every count of every per-zone
\* mapping and of the global mapping is a non-negative integer in every
\* reachable state, and from one step of the run to the next no label of the
\* global mapping is removed and no global count decreases.
C22_CountsOnlyGrow == []AllCountsNonNegative /\ [][GlobalCountsGrow]_vars

\* Two zones with data were folded, and for some label the global count is
\* larger than the count of either zone.
C22_Witness ==
    /\ Len(zone_reports) = 2
    /\ \E n \in 1..Len(global_tls_stats) :
          LET l == global_tls_stats[n].k
          IN  \A z \in 1..2 :
                /\ dict_has(zone_reports[z], l)
                /\ dict_get(zone_reports[z], l) >= 1
                /\ global_tls_stats[n].v > dict_get(zone_reports[z], l)

----------------------------------------------------------------------------
(***************************************************************************)
(* Termination.  The chunker, zone discovery and the run, each started on  *)
(* its own; a step that can be taken is taken (the program is sequential   *)
(* and every network call returns, with a response or with a failure).     *)
(***************************************************************************)

LiveInit == ChunkInit \/ ZonesInit \/ RunInit

LiveNext == ChunkNext \/ ZonesNext \/ Next

SpecLive ==
    /\ LiveInit
    /\ [][LiveNext]_vars
    /\ WF_vars(ChunkNext)
    /\ WF_vars(ZonesNext)
    /\ WF_vars(Next)

\* chunk_time_range is in a call with a span of at least one second.
ChunkWithSpan == ck_pc \in {"loop", "returned"} /\ max_chunk_seconds >= 1

\* chunk_time_range is in a call with start < end and a span <= 0.
ChunkWithoutSpan ==
    /\ ck_pc \in {"loop", "returned"}
    /\ RangeStart < RangeEnd
    /\ max_chunk_seconds <= 0

\* An iteration with a span >= 1 moves the cursor forward, and not past end.
CursorAdvances ==
    (ChunkWithSpan /\ chunks' # chunks) =>
        /\ current_start'.inst > current_start.inst
        /\ current_start'.inst <= RangeEnd

\* A call with a span >= 1 that started at or before end has, when it has
\* returned, its cursor at end.
CursorEndsAtEnd ==
    (ChunkWithSpan /\ ck_pc = "returned" /\ RangeStart <= RangeEnd) =>
        current_start.inst = RangeEnd

\* With start < end and a span <= 0 the loop condition stays true.
ChunkerStaysInLoop ==
    ChunkWithoutSpan =>
        /\ ck_pc = "loop"
        /\ loop_cond(current_start, parse_arg(end_datetime))

\* Every response of the page requests carries the same total_pages.
TotalPagesConstant ==
    \A a, b \in 1..Len(zd_log) :
        rest_total_pages(zd_log[a].r) = rest_total_pages(zd_log[b].r)

\* While every response carries the same total_pages, no more than
\* total_pages requests are made.
PaginationBounded ==
    (zd_log # <<>> /\ TotalPagesConstant) =>
        Len(zd_log) <= rest_total_pages(zd_log[1].r)

\* main has reached its completion: it has returned after the summary, or
\* it has left through one of its fatal exits.
RunCompleted == pc \in {"done", "exit"}

\* C24: with a span >= 1 chunk_time_range returns, for every start and end,
\* and every iteration moves its cursor forward, up to end, where it is
\* when the call returns; with start < end and a span <= 0 the call never
\* returns; the pagination of the REST listing ends, after at most
\* total_pages requests while every response carries the same total_pages;
\* and the run of main, every network call of which returns, comes to its
\* completion.
C24_Termination ==
    /\ (ck_pc = "loop" /\ max_chunk_seconds >= 1) ~> (ck_pc = "returned")
    /\ [][CursorAdvances]_vars
    /\ []CursorEndsAtEnd
    /\ []ChunkerStaysInLoop
    /\ (zd_pc = "rest") ~> (PaginationOver \/ ~TotalPagesConstant)
    /\ []PaginationBounded
    /\ (pc = "rest") ~> RunCompleted

====
